---- MODULE Spec2Model ----
(***************************************************************************)
(* Model of src/run/step_train_network.py: the epoch runners run_epoch and *)
(* run_epoch_fast, the trainer train(), the calibrator calibrate() and the *)
(* main program that runs train() and then calibrate() on one directory.   *)
(*                                                                         *)
(* Numbers: a validation/training error is an integer count of 1e-5 units  *)
(* (ErrOne is the error 1.0); the text "%.4f" % e is the integer count of  *)
(* 1e-4 units it prints.  Model parameters are abstracted to the number of *)
(* optimizer steps applied to them since get_model().                      *)
(***************************************************************************)
EXTENDS Integers, Sequences, FiniteSets

\* ---------------------------------------------------------------- bounds
MaxEpochs == 2
MaxWarmup == 1
\* the largest batch whose tensors are enumerated
MaxBatchSize == 2

\* ---------------------------------------------------------------- loaders
\* dataset.train_loader and dataset.valid_loader: finite, restartable
\* sequences of batches
TrainLoader == << "t1", "t2" >>
ValidLoader == << "v1" >>

\* ------------------------------------------------------ program constants
\* best_error = 1 (the error 1.0, in 1e-5 units)
ErrOne == 100000
\* '%.4f': 1e-5 units per printed 1e-4 unit
FmtUnit == 10

\* ------------------------------------------------------------ input sets
\* What one batch can produce: the scalar loss (only its sign matters to the
\* code) and the batch's top-1 error.
BatchOutcomes ==
    { [loss |-> 1,  error |-> 12341],
      [loss |-> 1,  error |-> 12344],
      [loss |-> 0,  error |-> 0],
      [loss |-> -1, error |-> ErrOne],
      [loss |-> 1,  error |-> ErrOne] }

SchedulerSettings ==
    { "ReduceLROnPlateau", "MultiStepLR_150_225_300",
      "MultiStepLR_60_120_160_200", "other", "KEY_ABSENT" }

RunEpochSettings == { "fast", "standard" }

Configs ==
    [ n_epochs : 0..MaxEpochs, warmup : 0..MaxWarmup,
      lr_scheduler : SchedulerSettings, run_epoch : RunEpochSettings ]

\* ---------------------------------------------------------------- files
NoFile == [exists |-> FALSE, data |-> 0]
\* a parameter snapshot left in the save directory by an earlier run
StaleParams == -1
StaleLine == [epoch |-> 7, text |-> 4321]
FileOf(d) == [exists |-> TRUE, data |-> d]

VARIABLES
    trn_para,        \* the training configuration (never changes)
    saveKind,        \* what the path `save` is: "absent", "dir" or "file"
    bestFile,        \* <save>/<model_filename>
    lastFile,        \* <save>/last_<model_filename>
    calibFile,       \* <save>/<calibrated_filename>
    auditLog,        \* <save>/model_ckpt_detail.txt, a sequence of lines
    env0,            \* history: the save path and its files when the program started
    pc,              \* position of the main program
    modelMade,       \* train(): get_model() has been called
    params,          \* the model's parameters (number of optimizer steps applied)
    optimizer,       \* main optimizer: [n_iters, steps, zero_grads, backwards]
    warmup_optimizer,\* warmup optimizer, same fields
    epoch,           \* loop variable of the warmup loop / the main loop
    batch,           \* number of batches of the current pass already processed
    lastBatch,       \* loss and error of the batch processed last
    loss_meter,      \* [n, sum] of the current pass
    error_meter,     \* [n, sum] of the current pass
    best_error,
    valid_error,
    schedCalls,      \* arguments of every scheduler.step() call so far
    passes,          \* history: every epoch-runner pass started, in order
    evalHist,        \* history: per main epoch, the error measured and the params evaluated
    bestWrites,      \* history: number of torch.save() calls on bestFile
    lastWrites,      \* history: number of torch.save() calls on lastFile
    calSteps,        \* history: the steps calibrate() has performed
    calState,        \* calibrate(): [loaded, made, base, T, loaders]
    scheduler,       \* the learning-rate scheduler: [impl, last_epoch, num_bad_epochs, best]
    seen,            \* the batches of the loader the current pass has processed
    tensors          \* one batch as tensors: [output, target]

vars == << trn_para, saveKind, bestFile, lastFile, calibFile, auditLog, env0, pc,
           modelMade, params, optimizer, warmup_optimizer, epoch, batch,
           lastBatch, loss_meter, error_meter, best_error, valid_error,
           schedCalls, passes, evalHist, bestWrites, lastWrites, calSteps,
           calState, scheduler, seen, tensors >>

fileVars == << bestFile, lastFile, calibFile, auditLog >>
histVars == << schedCalls, passes, evalHist, bestWrites, lastWrites, env0 >>
calVars == << calSteps, calState >>
passVars == << batch, lastBatch, loss_meter, error_meter, seen >>

\* ---------------------------------------------------------------- Meter
NewMeter == [n |-> 0, sum |-> 0]
MeterUpdate(m, v) == [n |-> m.n + 1, sum |-> m.sum + v]
\* running mean of the values seen (rounded to the 1e-5 unit)
MeterValue(m) == IF m.n = 0 THEN 0 ELSE m.sum \div m.n

\* lr_decays: how many times the schedule's factor has been applied to lr
NewOptimizer == [n_iters |-> 0, steps |-> 0, zero_grads |-> 0, backwards |-> 0,
                 lr_decays |-> 0]

\* '%.4f' % e: e rounded to the nearest 1e-4 unit
Fmt4(e) == (e + (FmtUnit \div 2)) \div FmtUnit

\* ------------------------------------------ torch.optim.lr_scheduler
\* MultiStepLR has shipped in two forms.  "membership": step() multiplies lr
\* by gamma once for every milestone equal to the new last_epoch.  "bisect":
\* lr is base_lr * gamma ** (number of milestones <= last_epoch).
TorchImpls == { "membership", "bisect" }

\* The forms of MultiStepLR a run can meet.  With whole-number milestones
\* (the two named policies) both forms give the same lr at every epoch, so
\* one stands for both; they differ only on the fractional milestones of the
\* default policy, 0.5 * n_epochs and 0.75 * n_epochs.
LibraryForms(setting) ==
    IF setting = "other" THEN TorchImpls ELSE { "membership" }

\* ReduceLROnPlateau(optimizer, patience=20)
Patience == 20
\* math.inf, the initial best metric: above every error
PlateauInf == 2 * ErrOne

NoScheduler(impl) ==
    [impl |-> impl, made |-> FALSE, last_epoch |-> 0, num_bad_epochs |-> 0,
     best |-> PlateauInf]

\* the milestones of each setting, in quarter epochs (lines 220-225)
Milestones4(setting, n_epochs) ==
    IF setting = "MultiStepLR_150_225_300" THEN << 600, 900, 1200 >>
    ELSE IF setting = "MultiStepLR_60_120_160_200" THEN << 240, 480, 640, 800 >>
    ELSE << 2 * n_epochs, 3 * n_epochs >>

\* milestones equal to epoch e / milestones not above epoch e
MilestoneHits(ms4, e) == Cardinality({ i \in 1..Len(ms4) : ms4[i] = 4 * e })
MilestonesPassed(ms4, e) == Cardinality({ i \in 1..Len(ms4) : ms4[i] <= 4 * e })

\* MultiStepLR.get_lr() at last_epoch = e, from cur decays so far
MultiStepDecays(impl, ms4, e, cur) ==
    IF impl = "membership" THEN cur + MilestoneHits(ms4, e)
                           ELSE MilestonesPassed(ms4, e)

\* the scheduler the constructor returns, after its initial step (lines 218-225)
MakeScheduler(sch) ==
    [sch EXCEPT !.made = TRUE, !.last_epoch = 0, !.num_bad_epochs = 0,
                !.best = PlateauInf]

\* lr after the constructor (lines 218-225)
DecaysAtConstruction(sch, setting, n_epochs) ==
    IF setting = "ReduceLROnPlateau" THEN 0
    ELSE MultiStepDecays(sch.impl, Milestones4(setting, n_epochs), 0, 0)

\* ReduceLROnPlateau: mode 'min', relative threshold 1e-4
PlateauBetter(metric, best) == metric * 10000 < best * 9999

\* scheduler.step(...) seen from the scheduler (lines 291-294)
StepScheduler(sch, setting, arg) ==
    IF setting = "ReduceLROnPlateau"
       THEN IF PlateauBetter(arg.value, sch.best)
               THEN [sch EXCEPT !.last_epoch = @ + 1, !.best = arg.value,
                                !.num_bad_epochs = 0]
            ELSE IF sch.num_bad_epochs + 1 > Patience
               THEN [sch EXCEPT !.last_epoch = @ + 1, !.num_bad_epochs = 0]
            ELSE [sch EXCEPT !.last_epoch = @ + 1, !.num_bad_epochs = @ + 1]
       ELSE [sch EXCEPT !.last_epoch = @ + 1]

\* scheduler.step(...) seen from the optimizer's lr (lines 291-294)
DecaysAfterStep(sch, setting, n_epochs, arg, cur) ==
    IF setting = "ReduceLROnPlateau"
       THEN IF ~PlateauBetter(arg.value, sch.best) /\ sch.num_bad_epochs + 1 > Patience
               THEN cur + 1 ELSE cur
       ELSE MultiStepDecays(sch.impl, Milestones4(setting, n_epochs),
                            sch.last_epoch + 1, cur)

\* ------------------------------------------------------------ tensors
NoTensors == [output |-> << >>, target |-> << >>]

\* the rows a model output can hold: the logits of three classes
OutputRows == { << 2, 1, 0 >>, << 0, 2, 1 >>, << 1, 0, 2 >> }
TargetClasses == 1..3

\* batches of N samples: output of shape [N, 3], target of shape [N]
Batches(N) ==
    [ output : [1..N -> OutputRows], target : [1..N -> TargetClasses] ]

\* the class with the largest logit
ArgMax(row) == CHOOSE c \in 1..Len(row) : \A d \in 1..Len(row) : row[c] >= row[d]

\* lines 72, 144: _, predictions = torch.topk(output, 1): indices, shape [N, 1]
TopK1(output) ==
    [shape |-> << Len(output), 1 >>,
     data |-> [i \in 1..Len(output) |-> ArgMax(output[i])]]

\* mutant: the predictions are compared as they come, without torch.squeeze
Squeeze_Missing(t) == t

\* torch.squeeze: every dimension of size 1 is removed ([N, 1] becomes [N],
\* and [1, 1] becomes a scalar of shape [])
Squeeze(t) ==
    [shape |-> SelectSeq(t.shape, LAMBDA d : d # 1), data |-> t.data]

\* torch.eq(a, target) with broadcasting against target of shape [N]: a
\* scalar is compared with every target, a vector element by element, and a
\* column of shape [M, 1] with every target, giving M * N truth values
TorchEq(a, target) ==
    IF Len(a.shape) = 0
       THEN [i \in 1..Len(target) |-> a.data[1] = target[i]]
    ELSE IF Len(a.shape) = 1
       THEN [i \in 1..Len(target) |-> a.data[i] = target[i]]
    ELSE [k \in 1..(Len(a.data) * Len(target)) |->
            a.data[((k - 1) \div Len(target)) + 1] = target[((k - 1) % Len(target)) + 1]]

\* .float().mean(), in 1e-5 units
FloatMean(truths) ==
    (ErrOne * Cardinality({ i \in 1..Len(truths) : truths[i] })) \div Len(truths)

\* lines 73, 145: error = 1 - torch.eq(torch.squeeze(predictions), target).float().mean()
Top1Error(output, target) ==
    ErrOne - FloatMean(TorchEq(Squeeze(TopK1(output)), target))

Init ==
    /\ trn_para \in Configs
    /\ saveKind \in {"absent", "dir", "file"}
    /\ \E trained \in BOOLEAN, calibrated \in BOOLEAN :
         \* files an earlier run left; only a directory can hold any
         /\ (trained \/ calibrated) => saveKind = "dir"
         /\ bestFile = IF trained THEN FileOf(StaleParams) ELSE NoFile
         /\ lastFile = IF trained THEN FileOf(StaleParams) ELSE NoFile
         /\ auditLog = IF trained THEN << StaleLine >> ELSE << >>
         /\ calibFile = IF calibrated THEN FileOf([base |-> StaleParams, T |-> 2])
                                      ELSE NoFile
    /\ env0 = [kind |-> saveKind, best |-> bestFile, last |-> lastFile,
               calib |-> calibFile, log |-> auditLog]
    /\ pc = "train"
    /\ modelMade = FALSE
    /\ params = 0
    /\ optimizer = NewOptimizer
    /\ warmup_optimizer = NewOptimizer
    /\ epoch = 0
    /\ batch = 0
    /\ lastBatch = [loss |-> 0, error |-> 0]
    /\ loss_meter = NewMeter
    /\ error_meter = NewMeter
    /\ best_error = ErrOne
    /\ valid_error = 0
    /\ schedCalls = << >>
    /\ passes = << >>
    /\ evalHist = << >>
    /\ bestWrites = 0
    /\ lastWrites = 0
    /\ calSteps = << >>
    /\ calState = [loaded |-> FALSE, made |-> FALSE, base |-> 0, T |-> 0,
                   loaders |-> {}]
    /\ scheduler \in { NoScheduler(impl) : impl \in LibraryForms(trn_para.lr_scheduler) }
    /\ seen = << >>
    /\ tensors = NoTensors

\* ------------------------------------------------------------- train()
\* mutant: os.path.exists(save) in place of os.path.isdir(save)
IsDir_Exists(kind) == kind # "absent"

\* os.path.isdir(save)
IsDir(kind) == kind = "dir"

\* lines 194-197: make the save directory, or raise when it is no directory
MakeSaveDir ==
    /\ pc = "train"
    /\ saveKind' = IF saveKind = "absent" THEN "dir" ELSE saveKind
    /\ pc' = IF IsDir(saveKind') THEN "setup" ELSE "train_failed"
    /\ UNCHANGED << trn_para, tensors, scheduler, fileVars, histVars, calVars, passVars, modelMade,
                    params, optimizer, warmup_optimizer, epoch, best_error,
                    valid_error >>

\* lines 199-229: model, criterion, optimizer, scheduler, loaders.  The
\* scheduler chain reads trn_para['lr_scheduler'] unguarded at line 220: a
\* configuration without that key raises KeyError there.
Setup ==
    /\ pc = "setup"
    /\ modelMade' = TRUE
    /\ params' = 0
    /\ IF trn_para.lr_scheduler = "KEY_ABSENT"
          THEN /\ pc' = "train_failed" /\ epoch' = epoch
               /\ optimizer' = NewOptimizer
               /\ UNCHANGED scheduler
          ELSE /\ pc' = "warmup" /\ epoch' = 1
               /\ scheduler' = MakeScheduler(scheduler)
               /\ optimizer' =
                     [NewOptimizer EXCEPT !.lr_decays =
                        DecaysAtConstruction(scheduler, trn_para.lr_scheduler,
                                             trn_para.n_epochs)]
    /\ UNCHANGED << trn_para, tensors, saveKind, fileVars, histVars, calVars, passVars,
                    warmup_optimizer, best_error, valid_error >>

\* a pass of an epoch runner starts: three fresh meters, model.train()/eval()
StartPass(kind) ==
    /\ batch' = 0
    /\ loss_meter' = NewMeter
    /\ error_meter' = NewMeter
    /\ passes' = Append(passes, [kind |-> kind, epoch |-> epoch])
    /\ seen' = << >>
    /\ UNCHANGED lastBatch

\* mutant: range(1, warmup) in place of range(1, warmup + 1)
WarmupContinues_OneShort(e) == trn_para.warmup > 0 /\ e < trn_para.warmup

\* range(1, warmup + 1) has a next element
WarmupContinues(e) == trn_para.warmup > 0 /\ e <= trn_para.warmup

\* lines 232-234 and 247: the warmup loop head; past it, best_error = 1
WarmupLoop ==
    /\ pc = "warmup"
    /\ IF WarmupContinues(epoch)
          THEN /\ pc' = "warm_pass"
               /\ StartPass("warmup")
               /\ UNCHANGED << epoch, best_error, warmup_optimizer >>
          ELSE /\ pc' = "loop"
               /\ epoch' = 1
               /\ best_error' = ErrOne
               /\ UNCHANGED << passVars, passes, warmup_optimizer >>
    /\ UNCHANGED << trn_para, tensors, scheduler, saveKind, fileVars, calVars, modelMade, params,
                    optimizer, valid_error, schedCalls, evalHist, bestWrites,
                    lastWrites, env0 >>

\* run_epoch, line 131: the backward pass is unconditional
StdDoesStep(loss) == TRUE

\* mutant: if loss.item() >= 0
FastDoesStep_NonNegative(loss) == loss >= 0

\* run_epoch_fast, line 58: if loss.item() > 0
FastDoesStep(loss) == loss > 0

\* one training batch seen from the optimizer: zero_grad, then backward and
\* step when doStep, then n_iters + 1 (lines 48-61, 121-133)
TrainBatchOpt(opt, doStep) ==
    [ n_iters    |-> opt.n_iters + 1,
      steps      |-> opt.steps + (IF doStep THEN 1 ELSE 0),
      zero_grads |-> opt.zero_grads + 1,
      backwards  |-> opt.backwards + (IF doStep THEN 1 ELSE 0),
      lr_decays  |-> opt.lr_decays ]

\* the loader the current pass enumerates
CurrentLoader ==
    IF pc \in { "eval_pass", "eval_pass_fast" } THEN ValidLoader ELSE TrainLoader

\* lines 71-80, 143-152: accounting of one batch
Account(o) ==
    /\ seen' = Append(seen, CurrentLoader[batch + 1])
    /\ lastBatch' = o
    /\ loss_meter' = MeterUpdate(loss_meter, o.loss)
    /\ error_meter' = MeterUpdate(error_meter, o.error)
    /\ batch' = batch + 1

\* run_epoch(train=True) on the warmup optimizer: one batch
WarmupBatch ==
    /\ pc = "warm_pass"
    /\ batch < Len(TrainLoader)
    /\ \E o \in BatchOutcomes :
         /\ warmup_optimizer' = TrainBatchOpt(warmup_optimizer, StdDoesStep(o.loss))
         /\ params' = params + (IF StdDoesStep(o.loss) THEN 1 ELSE 0)
         /\ Account(o)
    /\ UNCHANGED << trn_para, tensors, scheduler, saveKind, fileVars, histVars, calVars, pc,
                    modelMade, optimizer, epoch, best_error, valid_error >>

\* the warmup pass returns: next warmup epoch
WarmupPassEnd ==
    /\ pc = "warm_pass"
    /\ batch = Len(TrainLoader)
    /\ epoch' = epoch + 1
    /\ pc' = "warmup"
    /\ UNCHANGED << trn_para, tensors, scheduler, saveKind, fileVars, histVars, calVars, passVars,
                    modelMade, params, optimizer, warmup_optimizer, best_error,
                    valid_error >>

\* mutant: the loop body runs before the bound is tested
LoopContinues_BodyFirst(e) == e = 1 \/ e <= trn_para.n_epochs

\* range(1, n_epochs + 1) has a next element
LoopContinues(e) == e <= trn_para.n_epochs

\* line 248: the main loop head
LoopHead ==
    /\ pc = "loop"
    /\ IF LoopContinues(epoch)
          THEN pc' = "train_pass" /\ StartPass("train")
          ELSE pc' = "final_save" /\ UNCHANGED << passVars, passes >>
    /\ UNCHANGED << trn_para, tensors, scheduler, saveKind, fileVars, calVars, modelMade, params,
                    optimizer, warmup_optimizer, epoch, best_error, valid_error,
                    schedCalls, evalHist, bestWrites, lastWrites, env0 >>

\* run_epoch(train=True) on the main optimizer: one batch (lines 119-152)
RunEpochTrainBatch ==
    /\ pc = "train_pass"
    /\ trn_para.run_epoch # "fast"
    /\ batch < Len(TrainLoader)
    /\ \E o \in BatchOutcomes :
         /\ optimizer' = TrainBatchOpt(optimizer, StdDoesStep(o.loss))
         /\ params' = params + (IF StdDoesStep(o.loss) THEN 1 ELSE 0)
         /\ Account(o)
    /\ UNCHANGED << trn_para, tensors, scheduler, saveKind, fileVars, histVars, calVars, pc,
                    modelMade, warmup_optimizer, epoch, best_error, valid_error >>

\* run_epoch_fast(train=True) on the main optimizer: one batch (lines 46-80)
RunEpochFastTrainBatch ==
    /\ pc = "train_pass"
    /\ trn_para.run_epoch = "fast"
    /\ batch < Len(TrainLoader)
    /\ \E o \in BatchOutcomes :
         /\ optimizer' = TrainBatchOpt(optimizer, FastDoesStep(o.loss))
         /\ params' = params + (IF FastDoesStep(o.loss) THEN 1 ELSE 0)
         /\ Account(o)
    /\ UNCHANGED << trn_para, tensors, scheduler, saveKind, fileVars, histVars, calVars, pc,
                    modelMade, warmup_optimizer, epoch, best_error, valid_error >>

\* the training pass returns: line 271 starts the validation pass
TrainPassEnd ==
    /\ pc = "train_pass"
    /\ batch = Len(TrainLoader)
    /\ pc' = "eval_pass"
    /\ StartPass("eval")
    /\ UNCHANGED << trn_para, tensors, scheduler, saveKind, fileVars, calVars, modelMade, params,
                    optimizer, warmup_optimizer, epoch, best_error, valid_error,
                    schedCalls, evalHist, bestWrites, lastWrites, env0 >>

\* mutant: the n_iters line of the training branch runs in evaluation too
EvalBatchOpt_CountsIters(opt) == [opt EXCEPT !.n_iters = @ + 1]

\* run_epoch, lines 135-141: an evaluation batch seen from the optimizer
EvalBatchOpt(opt) == opt

\* mutant: the n_iters line of the training branch runs in evaluation too
FastEvalBatchOpt_CountsIters(opt) == [opt EXCEPT !.n_iters = @ + 1]

\* run_epoch_fast, lines 63-69: an evaluation batch seen from the optimizer
FastEvalBatchOpt(opt) == opt

\* run_epoch(train=False): one batch under torch.no_grad() (lines 135-152)
RunEpochEvalBatch ==
    /\ pc = "eval_pass"
    /\ batch < Len(ValidLoader)
    /\ \E o \in BatchOutcomes : Account(o)
    /\ optimizer' = EvalBatchOpt(optimizer)
    /\ UNCHANGED << trn_para, tensors, scheduler, saveKind, fileVars, histVars, calVars, pc,
                    modelMade, params, warmup_optimizer, epoch,
                    best_error, valid_error >>

\* the validation pass returns; line 283: _, _, valid_error = valid_results
EvalPassEnd ==
    /\ pc = "eval_pass"
    /\ batch = Len(ValidLoader)
    /\ valid_error' = MeterValue(error_meter)
    /\ evalHist' = Append(evalHist, [error |-> valid_error', params |-> params])
    /\ pc' = "decide"
    /\ UNCHANGED << trn_para, tensors, scheduler, saveKind, fileVars, calVars, passVars, modelMade,
                    params, optimizer, warmup_optimizer, epoch, best_error,
                    schedCalls, passes, bestWrites, lastWrites, env0 >>

\* mutant: every error below the initial best error counts as a new best
IsNewBest_AgainstInitial(err, best) == err < ErrOne

\* line 284: if valid_error[0] < best_error
IsNewBest(err, best) == err < best

\* line 289: 'epoch ' + str(epoch) + ' reaches new best error %.4f' % best_error
AuditLine(e, best) == [epoch |-> e, text |-> Fmt4(best)]

\* mutant: the audit log is opened with 'w' in place of 'a'
CheckpointDecision_Truncating ==
    /\ pc = "decide"
    /\ IF IsNewBest(valid_error, best_error)
          THEN /\ best_error' = valid_error
               /\ bestFile' = FileOf(params)
               /\ bestWrites' = bestWrites + 1
               /\ auditLog' = << AuditLine(epoch, best_error') >>
          ELSE UNCHANGED << best_error, bestFile, bestWrites, auditLog >>
    /\ pc' = "sched"
    /\ UNCHANGED << trn_para, tensors, scheduler, saveKind, lastFile, calibFile, calVars, passVars,
                    modelMade, params, optimizer, warmup_optimizer, epoch,
                    valid_error, schedCalls, passes, evalHist, lastWrites, env0 >>

\* lines 283-289: the checkpoint decision
CheckpointDecision ==
    /\ pc = "decide"
    /\ IF IsNewBest(valid_error, best_error)
          THEN /\ best_error' = valid_error
               /\ bestFile' = FileOf(params)
               /\ bestWrites' = bestWrites + 1
               /\ auditLog' = Append(auditLog, AuditLine(epoch, best_error'))
          ELSE UNCHANGED << best_error, bestFile, bestWrites, auditLog >>
    /\ pc' = "sched"
    /\ UNCHANGED << trn_para, tensors, scheduler, saveKind, lastFile, calibFile, calVars, passVars,
                    modelMade, params, optimizer, warmup_optimizer, epoch,
                    valid_error, schedCalls, passes, evalHist, lastWrites, env0 >>

\* mutant: scheduler.step() without the metric under every setting
SchedulerArg_NoMetric(setting, err) == [given |-> FALSE, value |-> 0]

\* lines 291-294: what scheduler.step is called with
SchedulerArg(setting, err) ==
    IF setting = "ReduceLROnPlateau"
       THEN [given |-> TRUE, value |-> err]
       ELSE [given |-> FALSE, value |-> 0]

\* lines 291-294, then the next iteration of the main loop
SchedulerStep ==
    /\ pc = "sched"
    /\ schedCalls' = Append(schedCalls,
                            [epoch |-> epoch,
                             arg |-> SchedulerArg(trn_para.lr_scheduler, valid_error),
                             decided |-> Len(evalHist),
                             best |-> best_error])
    /\ scheduler' = StepScheduler(scheduler, trn_para.lr_scheduler,
                                  SchedulerArg(trn_para.lr_scheduler, valid_error))
    /\ optimizer' =
          [optimizer EXCEPT !.lr_decays =
             DecaysAfterStep(scheduler, trn_para.lr_scheduler, trn_para.n_epochs,
                             SchedulerArg(trn_para.lr_scheduler, valid_error), @)]
    /\ epoch' = epoch + 1
    /\ pc' = "loop"
    /\ UNCHANGED << trn_para, tensors, saveKind, fileVars, calVars, passVars, modelMade,
                    params, warmup_optimizer, best_error, valid_error,
                    passes, evalHist, bestWrites, lastWrites, env0 >>

\* mutant: the final save is made only by runs that found a new best
FinalSave_OnlyAfterABest ==
    /\ pc = "final_save"
    /\ IF bestWrites > 0
          THEN lastFile' = FileOf(params) /\ lastWrites' = lastWrites + 1
          ELSE UNCHANGED << lastFile, lastWrites >>
    /\ pc' = "calibrate"
    /\ UNCHANGED << trn_para, tensors, scheduler, saveKind, bestFile, calibFile, auditLog, calVars,
                    passVars, modelMade, params, optimizer, warmup_optimizer,
                    epoch, best_error, valid_error, schedCalls, passes,
                    evalHist, bestWrites, env0 >>

\* line 296: torch.save(model.state_dict(), <save>/last_<model_filename>);
\* train() returns and the main program calls calibrate() (line 383)
FinalSave ==
    /\ pc = "final_save"
    /\ lastFile' = FileOf(params)
    /\ lastWrites' = lastWrites + 1
    /\ pc' = "calibrate"
    /\ UNCHANGED << trn_para, tensors, scheduler, saveKind, bestFile, calibFile, auditLog, calVars,
                    passVars, modelMade, params, optimizer, warmup_optimizer,
                    epoch, best_error, valid_error, schedCalls, passes,
                    evalHist, bestWrites, env0 >>

\* --------------------------------------------------------- calibrate()
\* the temperatures the fit can return (in units of 0.5)
Temperatures == { 2, 3 }

\* mutant: the existence test is missing
SourceExists_Unchecked(f) == TRUE

\* line 317: os.path.exists(<save>/<model_filename>)
SourceExists(f) == f.exists

\* lines 316-319: raise RuntimeError when the checkpoint is missing, else
\* torch.load it
CalibrateLoad ==
    /\ pc = "calibrate"
    /\ IF SourceExists(bestFile)
          THEN /\ calState' = [calState EXCEPT !.loaded = TRUE, !.base = bestFile.data]
               /\ calSteps' = Append(calSteps, "load")
               /\ pc' = "calib_model"
          ELSE /\ pc' = "calib_failed"
               /\ UNCHANGED calVars
    /\ UNCHANGED << trn_para, tensors, scheduler, saveKind, fileVars, histVars, passVars, modelMade,
                    params, optimizer, warmup_optimizer, epoch, best_error,
                    valid_error >>

\* lines 322-330: get_model, load_state_dict, wrap in ModelWithTemperature
CalibrateModel ==
    /\ pc = "calib_model"
    /\ calState' = [calState EXCEPT !.made = TRUE, !.T = 2]
    /\ pc' = "calib_fit"
    /\ UNCHANGED << trn_para, tensors, scheduler, saveKind, fileVars, histVars, passVars, modelMade,
                    params, optimizer, warmup_optimizer, epoch, best_error,
                    valid_error, calSteps >>

\* mutant: the temperature is fit on the training loader
FitLoader_Train == "train"

\* lines 327 and 333: valid_loader = dataset.valid_loader is what the fit reads
FitLoader == "valid"

\* ModelWithTemperature.opt_temperature(loader): reads the loader and sets
\* the temperature alone; the wrapped model's parameters stay as loaded
OptTemperature(st, loader, t) ==
    [st EXCEPT !.T = t, !.loaders = @ \cup { loader }]

\* line 333: model.opt_temperature(valid_loader)
CalibrateFit ==
    /\ pc = "calib_fit"
    /\ \E t \in Temperatures : calState' = OptTemperature(calState, FitLoader, t)
    /\ calSteps' = Append(calSteps, "fit")
    /\ pc' = "calib_save"
    /\ UNCHANGED << trn_para, tensors, scheduler, saveKind, fileVars, histVars, passVars, modelMade,
                    params, optimizer, warmup_optimizer, epoch, best_error,
                    valid_error >>

\* line 335: model.state_dict() of the wrapper: base parameters and temperature
CalibratedStateDict(st) == [base |-> st.base, T |-> st.T]

\* lines 334-335: torch.save(model.state_dict(), <save>/<calibrated_filename>)
CalibrateSave ==
    /\ pc = "calib_save"
    /\ calibFile' = FileOf(CalibratedStateDict(calState))
    /\ calSteps' = Append(calSteps, "save")
    /\ pc' = "done"
    /\ UNCHANGED << trn_para, tensors, scheduler, saveKind, bestFile, lastFile, auditLog, histVars,
                    passVars, modelMade, params, optimizer, warmup_optimizer,
                    epoch, best_error, valid_error, calState >>

\* ------------------------------------------------------- specification
Next ==
    \/ MakeSaveDir
    \/ Setup
    \/ WarmupLoop
    \/ WarmupBatch
    \/ WarmupPassEnd
    \/ LoopHead
    \/ RunEpochTrainBatch
    \/ RunEpochFastTrainBatch
    \/ TrainPassEnd
    \/ RunEpochEvalBatch
    \/ EvalPassEnd
    \/ CheckpointDecision
    \/ SchedulerStep
    \/ FinalSave
    \/ CalibrateLoad
    \/ CalibrateModel
    \/ CalibrateFit
    \/ CalibrateSave

Spec == Init /\ [][Next]_vars

\* ------------------------------------------- the epoch runners, called alone
\* run_epoch_fast(train=False): one batch under torch.no_grad() (lines 63-80)
RunEpochFastEvalBatch ==
    /\ pc = "eval_pass_fast"
    /\ batch < Len(ValidLoader)
    /\ \E o \in BatchOutcomes : Account(o)
    /\ optimizer' = FastEvalBatchOpt(optimizer)
    /\ UNCHANGED << trn_para, tensors, scheduler, saveKind, fileVars, histVars,
                    calVars, pc, modelMade, params, warmup_optimizer, epoch,
                    best_error, valid_error >>

\* a call run_epoch(..., train=...) or run_epoch_fast(..., train=...):
\* lines 33-45, 106-118
RunnerCall ==
    /\ pc \in { "call_train", "call_eval" }
    /\ pc' = IF pc = "call_train" THEN "train_pass"
             ELSE IF trn_para.run_epoch = "fast" THEN "eval_pass_fast"
             ELSE "eval_pass"
    /\ StartPass(IF pc = "call_train" THEN "train" ELSE "eval")
    /\ UNCHANGED << trn_para, tensors, scheduler, saveKind, fileVars, calVars,
                    modelMade, params, optimizer, warmup_optimizer, epoch,
                    best_error, valid_error, schedCalls, evalHist, bestWrites,
                    lastWrites, env0 >>

\* the loop over the loader is exhausted: lines 104, 176 return the meters
RunnerReturn ==
    /\ pc \in { "train_pass", "eval_pass", "eval_pass_fast" }
    /\ batch = Len(CurrentLoader)
    /\ valid_error' = MeterValue(error_meter)
    /\ pc' = "returned"
    /\ UNCHANGED << trn_para, tensors, scheduler, saveKind, fileVars, histVars,
                    calVars, passVars, modelMade, params, optimizer,
                    warmup_optimizer, epoch, best_error >>

\* the optimizers a runner can be handed: fresh, or used and decayed before
UsedOptimizers ==
    { [NewOptimizer EXCEPT !.n_iters = i, !.steps = i, !.zero_grads = i,
                           !.backwards = i, !.lr_decays = d] :
        i \in { 0, 3 }, d \in { 0, 1 } }

InitRunner ==
    /\ trn_para \in [ n_epochs : { 1 }, warmup : { 0 }, lr_scheduler : { "other" },
                      run_epoch : RunEpochSettings ]
    /\ saveKind = "dir"
    /\ bestFile = NoFile /\ lastFile = NoFile /\ calibFile = NoFile
    /\ auditLog = << >>
    /\ env0 = [kind |-> saveKind, best |-> bestFile, last |-> lastFile,
               calib |-> calibFile, log |-> auditLog]
    /\ pc \in { "call_train", "call_eval" }
    /\ modelMade = TRUE
    /\ optimizer \in UsedOptimizers
    /\ params = optimizer.steps
    /\ warmup_optimizer = NewOptimizer
    /\ epoch = 1
    /\ batch = 0
    /\ lastBatch = [loss |-> 0, error |-> 0]
    /\ loss_meter = NewMeter
    /\ error_meter = NewMeter
    /\ best_error = ErrOne
    /\ valid_error = 0
    /\ schedCalls = << >>
    /\ passes = << >>
    /\ evalHist = << >>
    /\ bestWrites = 0
    /\ lastWrites = 0
    /\ calSteps = << >>
    /\ calState = [loaded |-> FALSE, made |-> FALSE, base |-> 0, T |-> 0,
                   loaders |-> {}]
    /\ scheduler \in { MakeScheduler(NoScheduler(impl)) : impl \in TorchImpls }
    /\ seen = << >>
    /\ tensors = NoTensors

NextRunner ==
    \/ RunnerCall
    \/ RunEpochTrainBatch
    \/ RunEpochFastTrainBatch
    \/ RunEpochEvalBatch
    \/ RunEpochFastEvalBatch
    \/ RunnerReturn

SpecRunner == InitRunner /\ [][NextRunner]_vars

\* --------------------------------------- the accounting of one batch, alone
\* lines 71-80, 143-152 on a batch given as tensors
AccountTensors ==
    /\ pc = "accounting"
    /\ Account([loss |-> 1, error |-> Top1Error(tensors.output, tensors.target)])
    /\ pc' = "accounted"
    /\ UNCHANGED << trn_para, tensors, scheduler, saveKind, fileVars, histVars,
                    calVars, modelMade, params, optimizer, warmup_optimizer,
                    epoch, best_error, valid_error >>

InitAccounting ==
    /\ trn_para \in [ n_epochs : { 1 }, warmup : { 0 }, lr_scheduler : { "other" },
                      run_epoch : { "standard" } ]
    /\ saveKind = "dir"
    /\ bestFile = NoFile /\ lastFile = NoFile /\ calibFile = NoFile
    /\ auditLog = << >>
    /\ env0 = [kind |-> saveKind, best |-> bestFile, last |-> lastFile,
               calib |-> calibFile, log |-> auditLog]
    /\ pc = "accounting"
    /\ modelMade = TRUE
    /\ optimizer = NewOptimizer
    /\ params = 0
    /\ warmup_optimizer = NewOptimizer
    /\ epoch = 1
    /\ batch = 0
    /\ lastBatch = [loss |-> 0, error |-> 0]
    /\ loss_meter = NewMeter
    /\ error_meter = NewMeter
    /\ best_error = ErrOne
    /\ valid_error = 0
    /\ schedCalls = << >>
    /\ passes = << [kind |-> "eval", epoch |-> 1] >>
    /\ evalHist = << >>
    /\ bestWrites = 0
    /\ lastWrites = 0
    /\ calSteps = << >>
    /\ calState = [loaded |-> FALSE, made |-> FALSE, base |-> 0, T |-> 0,
                   loaders |-> {}]
    /\ scheduler = MakeScheduler(NoScheduler("membership"))
    /\ seen = << >>
    /\ \E N \in 1..MaxBatchSize : tensors \in Batches(N)

NextAccounting == AccountTensors

SpecAccounting == InitAccounting /\ [][NextAccounting]_vars

\* ------------------------------------------------------ claim vocabulary
TrainReturned == pc \in { "calibrate", "calib_model", "calib_fit", "calib_save",
                          "calib_failed", "done" }
InWarmup == pc \in { "warmup", "warm_pass" }
InMainLoop == pc \in { "loop", "train_pass", "eval_pass", "decide", "sched",
                       "final_save" }

\* every evaluated epoch has had its checkpoint decision
EpochsDecided == Len(evalHist) >= 1 /\ pc # "decide"

\* the lowest validation error observed so far in the run
MinError(h) == CHOOSE m \in { h[i].error : i \in 1..Len(h) } :
                  \A i \in 1..Len(h) : m <= h[i].error

\* the earliest epoch that measured it
EarliestMin(h) == CHOOSE i \in 1..Len(h) :
                     /\ h[i].error = MinError(h)
                     /\ \A j \in 1..(i - 1) : h[j].error # MinError(h)

\* the lines this run appended to the audit log
RunLines == SubSeq(auditLog, Len(env0.log) + 1, Len(auditLog))

\* C1: after every main-loop epoch the snapshot at <save>/<model_filename> is
\* the model state evaluated in the earliest epoch whose validation error
\* equals the minimum validation error observed so far in the run.
C1_BestIsEarliestMin ==
    EpochsDecided =>
        bestFile = FileOf(evalHist[EarliestMin(evalHist)].params)

\* C1, the part the code keeps: the same, for runs in which some epoch has
\* measured an error below the initial best error 1.0.
C1_BestIsEarliestMinBelowOne ==
    (EpochsDecided /\ MinError(evalHist) < ErrOne) =>
        bestFile = FileOf(evalHist[EarliestMin(evalHist)].params)

\* C1: a run in which every epoch measured the error 1.0 has written no
\* snapshot: the file is what the directory held before the run.
C1_NoSnapshotAtOne ==
    (EpochsDecided /\ MinError(evalHist) >= ErrOne) =>
        (bestFile = env0.best /\ bestWrites = 0)

\* C2 as the spec states it: the best-error values written to the audit log
\* by one run are strictly decreasing from one written line to the next.
C2_WrittenStrictlyDecreasing ==
    \A i \in 1..(Len(RunLines) - 1) : RunLines[i + 1].text < RunLines[i].text

\* C2 as amended: the best-error values written to the audit log by one run
\* (four decimals) never increase from one written line to the next.
C2_WrittenNonIncreasing ==
    \A i \in 1..(Len(RunLines) - 1) : RunLines[i + 1].text <= RunLines[i].text

\* C2 witness: a run that has written two lines, the second with a smaller value
C2_Witness ==
    /\ Len(RunLines) >= 2
    /\ RunLines[2].text < RunLines[1].text

\* C3: train() with n_epochs = 0 runs no validation pass, writes no best
\* checkpoint and appends no audit line, whatever warmup is, and when it
\* returns it has persisted last_<model_filename>.
C3_ZeroEpochs ==
    trn_para.n_epochs = 0 =>
        /\ \A i \in 1..Len(passes) : passes[i].kind = "warmup"
        /\ evalHist = << >>
        /\ bestWrites = 0
        /\ bestFile = env0.best
        /\ auditLog = env0.log
        /\ TrainReturned => (lastWrites = 1 /\ lastFile = FileOf(params))

\* C3 witness: such a run, with warmup passes, has returned
C3_Witness ==
    /\ trn_para.n_epochs = 0
    /\ trn_para.warmup > 0
    /\ pc = "calibrate"
    /\ Len(passes) = trn_para.warmup

\* the pass that position i of a run with W warmup epochs must hold
ExpectedPass(i, W) ==
    IF i <= W THEN [kind |-> "warmup", epoch |-> i]
    ELSE IF (i - W) % 2 = 1 THEN [kind |-> "train", epoch |-> (i - W + 1) \div 2]
    ELSE [kind |-> "eval", epoch |-> (i - W) \div 2]

\* C4: a run performs exactly warmup warmup passes first, during which no
\* validation pass runs, no checkpoint is written and no audit line is
\* appended, and then exactly n_epochs main epochs, each one training pass
\* followed by one evaluation pass; no warmup pass follows a main epoch.
C4_PassOrder ==
    /\ \A i \in 1..Len(passes) : passes[i] = ExpectedPass(i, trn_para.warmup)
    /\ InWarmup =>
         /\ Len(passes) <= trn_para.warmup
         /\ evalHist = << >>
         /\ bestWrites = 0 /\ lastWrites = 0
         /\ bestFile = env0.best /\ lastFile = env0.last
         /\ auditLog = env0.log
    /\ InMainLoop => Len(passes) >= trn_para.warmup
    /\ TrainReturned => Len(passes) = trn_para.warmup + 2 * trn_para.n_epochs

\* C4 witness: a run with warmup and two main epochs has returned
C4_Witness ==
    /\ pc = "calibrate"
    /\ trn_para.warmup >= 1
    /\ trn_para.n_epochs >= 2
    /\ passes[1].kind = "warmup"
    /\ passes[Len(passes)].kind = "eval"

\* C5: a run that completes its main loop persists the final model state to
\* last_<model_filename> exactly once, after the last epoch, whether or not
\* any epoch improved on the best error: the state after the last training
\* pass that ran.
C5_LastSavedOnce ==
    /\ ~TrainReturned => (lastWrites = 0 /\ lastFile = env0.last)
    /\ TrainReturned =>
         /\ lastWrites = 1
         /\ lastFile = FileOf(params)
         /\ lastFile.data = optimizer.steps + warmup_optimizer.steps
         /\ Len(evalHist) = trn_para.n_epochs
         /\ evalHist # << >> => lastFile.data = evalHist[Len(evalHist)].params

\* C5 witness: a run in which no epoch improved on the best error has returned
C5_Witness ==
    /\ pc = "calibrate"
    /\ trn_para.n_epochs >= 1
    /\ bestWrites = 0
    /\ lastFile.exists /\ lastFile.data > 0

\* C6: the scheduler is advanced exactly once per main epoch, after that
\* epoch's validation pass and checkpoint decision, with the epoch's
\* validation error when lr_scheduler is ReduceLROnPlateau and without an
\* argument otherwise; never during warmup; n_epochs times in a run.
C6_SchedulerSteps ==
    /\ \A i \in 1..Len(schedCalls) :
         /\ schedCalls[i].epoch = i
         /\ schedCalls[i].decided = i
         /\ schedCalls[i].best <= evalHist[i].error
         /\ schedCalls[i].arg =
               IF trn_para.lr_scheduler = "ReduceLROnPlateau"
                  THEN [given |-> TRUE, value |-> evalHist[i].error]
                  ELSE [given |-> FALSE, value |-> 0]
    /\ InWarmup => schedCalls = << >>
    /\ pc \in { "loop", "train_pass", "eval_pass", "decide", "sched" } =>
         Len(schedCalls) = epoch - 1
    /\ pc \in { "loop", "train_pass" } => Len(schedCalls) = Len(evalHist)
    /\ TrainReturned => Len(schedCalls) = trn_para.n_epochs

\* C6 witness: a plateau-scheduled run has returned after two steps
C6_Witness ==
    /\ pc = "calibrate"
    /\ trn_para.lr_scheduler = "ReduceLROnPlateau"
    /\ trn_para.warmup >= 1
    /\ Len(schedCalls) = 2
    /\ schedCalls[2].arg.given

\* C7, state part: the lines an earlier run left are still the head of the
\* audit log, the run has appended as many lines as it has overwritten the
\* best checkpoint, every appended line names an evaluated epoch and prints
\* its error, and the last line names the epoch whose state the checkpoint holds.
C7_LogMatchesCheckpoints ==
    /\ Len(auditLog) >= Len(env0.log)
    /\ SubSeq(auditLog, 1, Len(env0.log)) = env0.log
    /\ Len(RunLines) = bestWrites
    /\ \A i \in 1..Len(RunLines) :
         /\ RunLines[i].epoch \in 1..Len(evalHist)
         /\ RunLines[i].text = Fmt4(evalHist[RunLines[i].epoch].error)
    /\ bestWrites > 0 =>
         bestFile = FileOf(evalHist[RunLines[Len(RunLines)].epoch].params)
    /\ bestWrites = 0 => bestFile = env0.best

\* C7, step part: no step truncates or rewrites a line of the audit log, and
\* a step appends one line exactly when it overwrites the best checkpoint,
\* naming the current epoch.
C7_AppendOnlyStep ==
    /\ Len(auditLog') >= Len(auditLog)
    /\ SubSeq(auditLog', 1, Len(auditLog)) = auditLog
    /\ Len(auditLog') - Len(auditLog) = bestWrites' - bestWrites
    /\ bestWrites' # bestWrites =>
         /\ bestWrites' = bestWrites + 1
         /\ auditLog'[Len(auditLog')].epoch = epoch
         /\ bestFile' = FileOf(params)

\* C7: the audit log is append-only with one line per new best: lines already
\* in the file (also those of an earlier run) are never truncated or
\* rewritten, the number of lines a run appends equals the number of times it
\* overwrote the best checkpoint, and each line names the epoch just persisted.
C7_AuditLogAppendOnly ==
    [] C7_LogMatchesCheckpoints /\ [][C7_AppendOnlyStep]_vars

\* C7 witness: a run into a directory holding an earlier run's log has
\* appended two lines
C7_Witness ==
    /\ env0.log # << >>
    /\ Len(auditLog) = Len(env0.log) + 2
    /\ bestWrites = 2

\* C8: calibrate() fails fatally when <save>/<model_filename> does not exist,
\* before instantiating a model, fitting or writing anything, leaving
\* <save>/<calibrated_filename> as it was; when the file exists it performs
\* load, fit, save in that order, once each.
C8_CalibrateLinear ==
    /\ pc = "calib_failed" <=> (TrainReturned /\ pc # "calibrate" /\ ~bestFile.exists)
    /\ ~bestFile.exists =>
         /\ calSteps = << >>
         /\ ~calState.loaded /\ ~calState.made
         /\ calibFile = env0.calib
    /\ pc = "calibrate" => calSteps = << >>
    /\ pc = "calib_model" => (calSteps = << "load" >> /\ ~calState.made)
    /\ pc = "calib_fit" => (calSteps = << "load" >> /\ calState.made)
    /\ pc = "calib_save" => calSteps = << "load", "fit" >>
    /\ pc = "done" =>
         /\ calSteps = << "load", "fit", "save" >>
         /\ calibFile = FileOf([base |-> bestFile.data, T |-> calState.T])
    /\ pc # "done" => calibFile = env0.calib

\* C8 witness: calibrate() has failed in a directory that holds an earlier
\* calibrated file
C8_Witness ==
    /\ pc = "calib_failed"
    /\ calibFile.exists

\* C8 witness of the other branch: calibrate() has saved
C8_WitnessSaved ==
    /\ pc = "done"
    /\ calibFile.exists /\ calibFile.data.base >= 0

\* C9, one step: every batch is recorded in the meters; a fast training batch
\* with loss <= 0 leaves the parameters and the optimizer's steps as they
\* were and the pass goes on, one with loss > 0 does backward and one step;
\* a standard training batch always does backward and one step.
C9_BatchStep ==
    batch' = batch + 1 =>
        /\ pc' = pc
        /\ loss_meter' = [n |-> loss_meter.n + 1, sum |-> loss_meter.sum + lastBatch'.loss]
        /\ error_meter' = [n |-> error_meter.n + 1, sum |-> error_meter.sum + lastBatch'.error]
        /\ (pc = "train_pass" /\ trn_para.run_epoch = "fast") =>
             /\ optimizer'.n_iters = optimizer.n_iters + 1
             /\ optimizer'.zero_grads = optimizer.zero_grads + 1
             /\ IF lastBatch'.loss > 0
                   THEN /\ params' = params + 1
                        /\ optimizer'.steps = optimizer.steps + 1
                        /\ optimizer'.backwards = optimizer.backwards + 1
                   ELSE /\ params' = params
                        /\ optimizer'.steps = optimizer.steps
                        /\ optimizer'.backwards = optimizer.backwards
        /\ (pc = "train_pass" /\ trn_para.run_epoch # "fast") =>
             /\ params' = params + 1
             /\ optimizer'.steps = optimizer.steps + 1
             /\ optimizer'.backwards = optimizer.backwards + 1
        /\ pc = "warm_pass" =>
             /\ params' = params + 1
             /\ warmup_optimizer'.steps = warmup_optimizer.steps + 1
             /\ warmup_optimizer'.backwards = warmup_optimizer.backwards + 1

\* C9: in run_epoch_fast in training mode a batch whose loss is zero or
\* negative skips backward and the optimizer step for that batch only and is
\* still recorded in the meters; a batch with loss > 0 does backward and one
\* step; run_epoch does backward and one step on every training batch.
C9_DegenerateLossGuard == [][C9_BatchStep]_vars

\* C9 witness: a fast pass has skipped a batch and stepped on a later one
C9_Witness ==
    /\ pc = "train_pass"
    /\ trn_para.run_epoch = "fast"
    /\ batch = 2
    /\ lastBatch.loss > 0
    /\ optimizer.steps = 1
    /\ optimizer.n_iters = 2
    /\ loss_meter.n = 2

\* C10: train() ensures the save directory exists and is a directory before
\* any training: an absent path is created, and a path that is no directory
\* makes train() fail before the model is instantiated, before any pass runs
\* and before any file is written.
C10_SaveDirFirst ==
    /\ (env0.kind = "absent" /\ pc # "train") => saveKind = "dir"
    /\ env0.kind = "file" =>
         /\ pc \in { "train", "train_failed" }
         /\ saveKind = "file"
         /\ ~modelMade
         /\ passes = << >>
         /\ bestWrites = 0 /\ lastWrites = 0
         /\ << bestFile, lastFile, calibFile, auditLog >> =
               << env0.best, env0.last, env0.calib, env0.log >>
    /\ (modelMade \/ passes # << >> \/ bestWrites > 0 \/ lastWrites > 0) =>
         saveKind = "dir"

\* C10 witness: train() has failed on a path that is a file
C10_Witness ==
    /\ pc = "train_failed"
    /\ saveKind = "file"
    /\ ~modelMade

\* C10 witness of the other branch: an absent directory was created and trained in
C10_WitnessCreated ==
    /\ env0.kind = "absent"
    /\ saveKind = "dir"
    /\ passes # << >>

InCalibrate == pc \in { "calibrate", "calib_model", "calib_fit", "calib_save",
                        "calib_failed", "done" }

\* C11, state part: once the fit has run, the only loader calibrate() has
\* read is the validation loader, and the base parameters in the calibrated
\* snapshot are the ones loaded from the source checkpoint.
C11_FitOnValidationOnly ==
    /\ calState.loaders \subseteq { "valid" }
    /\ pc \in { "calib_save", "done" } => calState.loaders = { "valid" }
    /\ calState.loaded => calState.base = bestFile.data
    /\ pc = "done" =>
         /\ calibFile.exists
         /\ calibFile.data.base = bestFile.data
         /\ calibFile.data.T \in Temperatures

\* C11, step part: no step of calibrate() writes the source checkpoint, and
\* the fit changes the temperature alone.
C11_SourceUntouchedStep ==
    InCalibrate =>
        /\ bestFile' = bestFile
        /\ (calState.loaded /\ calState'.loaded) => calState'.base = calState.base

\* C11: calibrate() fits the temperature on the validation loader only, never
\* reading the training loader; the base parameters it persists in the
\* calibrated snapshot equal those loaded from the source checkpoint, and the
\* source checkpoint file is not modified.
C11_CalibrationFrame ==
    [] C11_FitOnValidationOnly /\ [][C11_SourceUntouchedStep]_vars

\* C11 witness: calibrate() has saved a snapshot of this run's checkpoint with
\* a fitted temperature
C11_Witness ==
    /\ pc = "done"
    /\ bestWrites > 0
    /\ calState.loaders = { "valid" }
    /\ calibFile.data.base = bestFile.data
    /\ calibFile.data.T = 3

\* how often lr must have been reduced once k main epochs are completed, when
\* it is reduced as k reaches 0.5 * n and again as k reaches 0.75 * n
ExpectedDecays(n, k) ==
    (IF 2 * k >= n THEN 1 ELSE 0) + (IF 4 * k >= 3 * n THEN 1 ELSE 0)

\* C13: with none of the named policies selected and n_epochs >= 1, stepping
\* the scheduler once per epoch reduces the learning rate once when the number
\* of completed main epochs reaches 0.5 * n_epochs and once more when it
\* reaches 0.75 * n_epochs, also when those values are not whole numbers.
C13_DefaultScheduleDecays ==
    (scheduler.made /\ trn_para.lr_scheduler = "other" /\ trn_para.n_epochs >= 1) =>
        optimizer.lr_decays = ExpectedDecays(trn_para.n_epochs, scheduler.last_epoch)

InEvalPass == pc \in { "eval_pass", "eval_pass_fast" }

\* C12, state part: an evaluation pass has recorded one meter update per
\* batch processed, has taken the loader's batches in order, each once, and
\* returns only when it has processed them all.
C12_EveryBatchOnce ==
    /\ InEvalPass =>
         /\ batch <= Len(ValidLoader)
         /\ seen = SubSeq(ValidLoader, 1, batch)
         /\ error_meter.n = batch /\ loss_meter.n = batch
    /\ (pc = "returned" /\ passes[Len(passes)].kind = "eval") =>
         /\ seen = ValidLoader
         /\ error_meter.n = Len(ValidLoader)

\* C12, step part: no step from the call of an evaluation pass to its return
\* clears gradients, runs backward or steps the optimizer: the optimizer's
\* state, its n_iters and the learning rate stay as they were, and so do the
\* parameters.
C12_EvalStep ==
    (pc = "call_eval" \/ InEvalPass) =>
        /\ optimizer' = optimizer
        /\ warmup_optimizer' = warmup_optimizer
        /\ params' = params
        /\ scheduler' = scheduler

\* C12: an evaluation pass (run_epoch or run_epoch_fast with train=False)
\* performs no gradient clearing, no backward pass and no optimizer step for
\* any batch: the optimizer's state, its n_iters counter and the learning rate
\* are the same after the pass as before it, and the pass runs over every
\* batch of the loader exactly once.
C12_EvalPassFrame ==
    [] C12_EveryBatchOnce /\ [][C12_EvalStep]_vars

\* C12 witness: run_epoch_fast(train=False) has returned, on an optimizer
\* that had been stepped and decayed before
C12_Witness ==
    /\ pc = "returned"
    /\ trn_para.run_epoch = "fast"
    /\ passes = << [kind |-> "eval", epoch |-> 1] >>
    /\ seen = ValidLoader
    /\ optimizer.n_iters = 3
    /\ optimizer.lr_decays = 1

\* the samples of the batch whose arg-max class is not the target
WrongSamples(t) ==
    { i \in 1..Len(t.target) : ArgMax(t.output[i]) # t.target[i] }

\* C14: for a batch of any size >= 1, also of a single sample, the top-1
\* error the runner computes is 1 minus the fraction of samples whose arg-max
\* class equals the target (to the 1e-5 unit): 0.0 when every prediction
\* matches and 1.0 when every prediction is wrong.
C14_Top1Error ==
    pc = "accounted" =>
        LET N == Len(tensors.target)
            wrong == Cardinality(WrongSamples(tensors))
            e == lastBatch.error
        IN  /\ (wrong = 0) => (e = 0)
            /\ (wrong = N) => (e = ErrOne)
            /\ N * e - ErrOne * wrong < N
            /\ ErrOne * wrong - N * e < N
            /\ error_meter = [n |-> 1, sum |-> e]

\* C14 witness: a batch of one sample, predicted wrong, has been accounted
C14_Witness ==
    /\ pc = "accounted"
    /\ Len(tensors.target) = 1
    /\ WrongSamples(tensors) = { 1 }
    /\ lastBatch.error = ErrOne

\* C14 witness of a mixed batch: one of two samples wrong
C14_WitnessMixed ==
    /\ pc = "accounted"
    /\ Len(tensors.target) = 2
    /\ Cardinality(WrongSamples(tensors)) = 1
    /\ lastBatch.error = ErrOne \div 2

\* C15: when the main program runs train() and then calibrate() on one save
\* directory, the checkpoint calibrate() loads was written by that train()
\* run: once train() has returned, <save>/<model_filename> exists and holds a
\* state of this run, for every n_epochs >= 0 and every sequence of validation
\* errors, also when no error is below 1.0 and when the directory already
\* held a checkpoint.
C15_CalibrateLoadsThisRun ==
    TrainReturned =>
        /\ bestFile.exists
        /\ bestWrites >= 1
        /\ bestFile.data # StaleParams
        /\ calState.loaded => calState.base # StaleParams

\* C15, what the code does instead: a run that found no error below 1.0
\* leaves the file as the directory held it, and calibrate() then fails or
\* loads the earlier run's parameters.
C15_NoBestLeavesEarlierFile ==
    (TrainReturned /\ bestWrites = 0) =>
        /\ bestFile = env0.best
        /\ (pc = "calib_failed") => ~env0.best.exists
        /\ calState.loaded => (env0.best.exists /\ calState.base = StaleParams)

====
